---- MODULE Spec2Model ----
(***************************************************************************)
(* Model of the conversation builder of obsidian-chat-stream               *)
(* (src/src/noteGenerator.ts): getSystemPrompt, buildMessages and its      *)
(* visitor, getTokenLimit, over a canvas graph of note nodes.              *)
(*                                                                         *)
(* Text is a sequence of one-character strings.  The tokenizer             *)
(* (js-tiktoken) is modelled as a greedy longest-match encoder over a      *)
(* small vocabulary, so tokens and characters are not in 1:1               *)
(* correspondence.  The graph walker (obsidian/canvasUtil) and the node    *)
(* reader (obsidian/fileUtil) are not part of the available sources; they  *)
(* are modelled from sections 4.2 and 6 of the specification.              *)
(***************************************************************************)
EXTENDS Integers, Sequences, FiniteSets, TLC

\* ------------------------------------------------------------- bounds
MaxChain == 3
MaxInputTokens == 3
MaxDepthSetting == 1
MaxGenChain == 2

\* ------------------------------------------------------------- text
Min(a, b) == IF a < b THEN a ELSE b
Max(a, b) == IF a > b THEN a ELSE b

\* String.prototype.startsWith
StartsWith(t, p) == Len(t) >= Len(p) /\ SubSeq(t, 1, Len(p)) = p

IsSpace(c) == c = " "

RECURSIVE TrimStart(_)
TrimStart(t) ==
    IF t # <<>> /\ IsSpace(Head(t)) THEN TrimStart(Tail(t)) ELSE t

RECURSIVE TrimEnd(_)
TrimEnd(t) ==
    IF t # <<>> /\ IsSpace(t[Len(t)]) THEN TrimEnd(SubSeq(t, 1, Len(t) - 1)) ELSE t

\* String.prototype.trim
Trim(t) == TrimEnd(TrimStart(t))

\* Array.prototype.slice(0, end) and String.prototype.slice(0, end):
\* a negative end counts from the end of the sequence.
JsSlice(s, end) ==
    LET e == IF end < 0 THEN Max(Len(s) + end, 0) ELSE Min(end, Len(s))
    IN  SubSeq(s, 1, e)

\* literals of the source
ImageSentinel == <<"d", "a", "t", "a", ":", "i", "m", "a", "g", "e">>
SystemPromptMarker ==
    <<"S", "Y", "S", "T", "E", "M", " ", "P", "R", "O", "M", "P", "T">>

\* ------------------------------------------------------------- encoder
\* multi-character tokens of the vocabulary; every single character is a token
Vocabulary ==
    { <<"a", "b">>,
      <<"S", "Y", "S", "T", "E", "M">>,
      <<" ", "P", "R", "O", "M", "P", "T">>,
      <<"d", "a", "t", "a">>,
      <<"i", "m", "a", "g", "e">> }

LongestMatch(t) ==
    LET ks == { k \in 1..Len(t) : k = 1 \/ SubSeq(t, 1, k) \in Vocabulary }
    IN  CHOOSE k \in ks : \A j \in ks : j <= k

\* a character the vocabulary has no merged token for: it is encoded as its
\* UTF-8 bytes, one token for the lead byte and one for the trail byte
WideChar == "U+0416"
LeadByte == "0xD0"
TrailByte == "0x96"
\* U+FFFD, what TextDecoder writes for an incomplete byte sequence
ReplacementChar == "U+FFFD"

\* encoding.encode: text -> sequence of tokens (a token is its byte string,
\* written as the characters it spells where they are whole)
RECURSIVE Encode(_)
Encode(t) ==
    IF t = <<>> THEN <<>>
    ELSE IF Head(t) = WideChar
         THEN << <<LeadByte>>, <<TrailByte>> >> \o Encode(Tail(t))
    ELSE LET k == LongestMatch(t)
         IN  <<SubSeq(t, 1, k)>> \o Encode(SubSeq(t, k + 1, Len(t)))

\* the bytes of a token sequence, concatenated
RECURSIVE TokenBytes(_)
TokenBytes(toks) ==
    IF toks = <<>> THEN <<>> ELSE Head(toks) \o TokenBytes(Tail(toks))

\* TextDecoder.decode (not fatal): a complete byte sequence is its character,
\* a lead byte without its trail byte or a stray trail byte is U+FFFD
RECURSIVE Utf8Decode(_)
Utf8Decode(bytes) ==
    IF bytes = <<>> THEN <<>>
    ELSE IF Head(bytes) = LeadByte
         THEN IF Len(bytes) >= 2 /\ bytes[2] = TrailByte
              THEN <<WideChar>> \o Utf8Decode(SubSeq(bytes, 3, Len(bytes)))
              ELSE <<ReplacementChar>> \o Utf8Decode(Tail(bytes))
    ELSE IF Head(bytes) = TrailByte
         THEN <<ReplacementChar>> \o Utf8Decode(Tail(bytes))
    ELSE <<Head(bytes)>> \o Utf8Decode(Tail(bytes))

\* encoding.decode: sequence of tokens -> text
Decode(toks) == Utf8Decode(TokenBytes(toks))

\* ------------------------------------------------------------- canvas graph
\* note contents the canvas nodes are drawn from: text and chat_role
BlankNote == [text |-> <<" ">>, chat_role |-> "none"]
ImageNote == [text |-> ImageSentinel \o <<"x">>, chat_role |-> "none"]
PromptNoteA == [text |-> SystemPromptMarker, chat_role |-> "none"]
PromptNoteB == [text |-> <<" ">> \o SystemPromptMarker \o <<"a">>, chat_role |-> "none"]
TextNote1 == [text |-> <<"a", "b">>, chat_role |-> "assistant"]
TextNote4 == [text |-> <<" ", "a", "b", "c", "a", "b", "c", " ">>, chat_role |-> "none"]

NotePool ==
    { BlankNote, ImageNote, PromptNoteA, PromptNoteB, TextNote1, TextNote4 }

SeqRange(s) == { s[i] : i \in 1..Len(s) }

\* ancestor graphs, as node id -> parents in edge order; node 1 is the
\* selected node.  Single-parent chains of every length up to MaxChain ...
ChainParents(n) == [m \in 1..n |-> IF m < n THEN <<m + 1>> ELSE <<>>]

\* ... and the three-node graphs with a node that has two incoming edges: the
\* fork and the diamond, in both edge orders
BranchingParents ==
    { << <<2, 3>>, <<>>, <<>> >>,
      << <<3, 2>>, <<>>, <<>> >>,
      << <<2, 3>>, <<3>>, <<>> >>,
      << <<3, 2>>, <<3>>, <<>> >> }

ParentMaps == { ChainParents(n) : n \in 1..MaxChain } \cup BranchingParents

DefaultPrompts == { <<>>, <<"b">> }
ActionPrompts == { <<>>, <<"c", "a">> }

VARIABLES
    nodes,        \* canvas: node id -> [text, chat_role]
    parents,      \* canvas: node id -> sequence of parent node ids (incoming edges)
    settings,     \* ChatStreamSettings: maxInputTokens, maxDepth, systemPrompt
    actionPrompt, \* buildMessages' optional argument (<<>>: not supplied)
    pc,           \* position inside buildMessages
    stack,        \* pending (node, depth) visits of the running walk
    foundPrompt,  \* getSystemPrompt's local (<<>>: null)
    systemPrompt, \* buildMessages' local
    tokenCount,   \* buildMessages' local
    messages,     \* buildMessages' local
    origin,       \* history: for each entry of messages, the visit that emitted it
                  \* and the settings that visit read
    truncations,  \* history: number of "Truncating node text" debug lines
    result        \* value returned by buildMessages

\* the plugin around buildMessages: generateNote and what it acts on
VARIABLES
    config,       \* settings.apiKey, actions, apiModel, maxResponseTokens, temperature
    canvasOpen,   \* whether a canvas is the active view
    selection,    \* canvas.selection: set of node ids
    gpc,          \* position inside generateNote
    invokedAction, \* generateNote's first argument (action)
    created,      \* the placeholder node made by createNode
    edges,        \* edges added to the canvas by generateNote
    notices,      \* Notices shown to the user, in order
    requests,     \* requests sent to the completion endpoint, in order
    response,     \* how the last request settled: response body or rejection
    completion,   \* how getChatGPTCompletion ended: value returned or error thrown
    consoleLog    \* console.error lines of getChatGPTCompletion

VARIABLE
    overlap       \* invocations of generateNote running side by side: each
                  \* one's position, source node, placeholder and completion;
                  \* and the nodes taken off the canvas

genVars == <<config, canvasOpen, selection, gpc, invokedAction, created, edges,
             notices, requests, response, completion, consoleLog>>

vars == <<nodes, parents, settings, actionPrompt, pc, stack, foundPrompt,
          systemPrompt, tokenCount, messages, origin, truncations, result,
          genVars, overlap>>

\* JavaScript values: undefined and strings
Undefined == [defined |-> FALSE, text |-> <<>>]
Defined(t) == [defined |-> TRUE, text |-> t]

\* an action of settings.actions, and the argument left out of a call
ChatStreamAction(id, name, prompt) ==
    [defined |-> TRUE, id |-> id, name |-> name, prompt |-> prompt]
NoAction == [defined |-> FALSE, id |-> "", name |-> "", prompt |-> <<>>]

NoNode == [exists |-> FALSE, text |-> <<>>, chat_role |-> "none"]
NoError == [code |-> 0, message |-> ""]
NoCompletion == [kind |-> "pending", value |-> Undefined, error |-> NoError]
NoBody == [kind |-> "none", content |-> [present |-> FALSE, items |-> <<>>],
           output |-> [present |-> FALSE, items |-> <<>>],
           output_text |-> Undefined]
NoResponse == [ok |-> FALSE, body |-> NoBody, error |-> NoError]

\* the invocations of generateNote that can be pending together
Invocations == {1, 2}

IdleInvocation ==
    [pc |-> "idle", source |-> 0, created |-> 0, completion |-> NoCompletion]

NoOverlap == [inv |-> [i \in Invocations |-> IdleInvocation], removed |-> {}]

\* DEFAULT_SETTINGS.apiModel
DefaultModel == <<"g", "p", "t", "-", "3", ".", "5", "-", "t", "u", "r", "b", "o">>

\* buildMessages called on its own: nothing of generateNote is running
NotGenerating ==
    /\ config = [apiKey |-> "sk", actions |-> <<>>, apiModel |-> DefaultModel,
                 maxResponseTokens |-> 0, temperature |-> 1]
    /\ canvasOpen = TRUE
    /\ selection = {1}
    /\ gpc = "none"
    /\ invokedAction = NoAction
    /\ created = NoNode
    /\ edges = {}
    /\ notices = <<>>
    /\ requests = <<>>
    /\ response = NoResponse
    /\ completion = NoCompletion
    /\ consoleLog = <<>>
    /\ overlap = NoOverlap

NoResult == [messages |-> <<>>, tokenCount |-> -1]

\* readNodeContent
readNodeContent(n) == nodes[n].text

\* ------------------------------------------------------------- settings
defaultLimit == 8192

getTokenLimit(s) ==
    IF s.maxInputTokens # 0 /\ s.maxInputTokens > 0 THEN s.maxInputTokens
    ELSE defaultLimit

\* ------------------------------------------------------------- walker
\* visitNodeAndAncestors: depth-first; the parents of a node are visited, at
\* depth + 1, only when the visitor returned true for it; sibling branches
\* still run
WalkStart(n) == << [node |-> n, depth |-> 0] >>

WalkNext(shouldContinue) ==
    LET cur == Head(stack)
        ps == parents[cur.node]
    IN  IF shouldContinue
        THEN [i \in 1..Len(ps) |-> [node |-> ps[i], depth |-> cur.depth + 1]]
                 \o Tail(stack)
        ELSE Tail(stack)

Init ==
    /\ parents \in ParentMaps
    /\ nodes \in [DOMAIN parents -> NotePool]
    /\ settings \in [maxInputTokens : 0..MaxInputTokens,
                     maxDepth : 0..MaxDepthSetting,
                     systemPrompt : DefaultPrompts]
    /\ actionPrompt \in ActionPrompts
    /\ pc = "getSystemPrompt"
    /\ stack = WalkStart(1)
    /\ foundPrompt = <<>>
    /\ systemPrompt = <<>>
    /\ tokenCount = 0
    /\ messages = <<>>
    /\ origin = <<>>
    /\ truncations = 0
    /\ result = NoResult
    /\ NotGenerating

\* ------------------------------------------------------------- getSystemPrompt
isSystemPromptNode(text) == StartsWith(Trim(text), SystemPromptMarker)

\* the visitor of getSystemPrompt: the value of foundPrompt after the call and
\* the visitor's return value
PromptVisitor(text, found) ==
    IF text # <<>> /\ isSystemPromptNode(text)
    THEN [foundPrompt |-> text, shouldContinue |-> FALSE]
    ELSE [foundPrompt |-> found, shouldContinue |-> TRUE]

\* foundPrompt || settings.systemPrompt
ResolvedPrompt(found, s) == IF found # <<>> THEN found ELSE s.systemPrompt

\* one visitor call of getSystemPrompt's walk
GetSystemPromptVisit ==
    /\ pc = "getSystemPrompt"
    /\ stack # <<>>
    /\ LET v == PromptVisitor(readNodeContent(Head(stack).node), foundPrompt)
       IN  /\ foundPrompt' = v.foundPrompt
           /\ stack' = WalkNext(v.shouldContinue)
    /\ UNCHANGED <<overlap, nodes, parents, settings, actionPrompt, pc, systemPrompt,
                   tokenCount, messages, origin, truncations, result,
                   genVars>>

\* getSystemPrompt returns; buildMessages charges the prompt and starts its walk
GetSystemPromptReturn ==
    /\ pc = "getSystemPrompt"
    /\ stack = <<>>
    /\ systemPrompt' = ResolvedPrompt(foundPrompt, settings)
    /\ tokenCount' = tokenCount +
          (IF systemPrompt' # <<>> THEN Len(Encode(systemPrompt')) ELSE 0)
    /\ pc' = "visit"
    /\ stack' = WalkStart(1)
    /\ UNCHANGED <<overlap, nodes, parents, settings, actionPrompt, foundPrompt,
                   messages, origin, truncations, result,
                   genVars>>

\* ------------------------------------------------------------- buildMessages.visit
ImageMessage(url) == [role |-> "user", type |-> "image_url", content |-> url]

TextMessage(text, chat_role) ==
    [role |-> IF chat_role = "assistant" THEN "assistant" ELSE "user",
     type |-> "text", content |-> text]

\* variant of the depth test that never stops the walk
BeyondMaxDepth_Never(depth) == FALSE

\* settings.maxDepth && depth > settings.maxDepth
BeyondMaxDepth(depth) == settings.maxDepth # 0 /\ depth > settings.maxDepth

\* tokenCount + nodeTokens.length > inputLimit
ExceedsLimit(tc, nodeTokens, inputLimit) == tc + Len(nodeTokens) > inputLimit

\* variant of KeepTokens that leaves no one-token margin
KeepTokens_NoMargin(nodeTokens, tc, inputLimit) ==
    JsSlice(nodeTokens, inputLimit - tc)

\* nodeTokens.slice(0, inputLimit - tokenCount - 1)
KeepTokens(nodeTokens, tc, inputLimit) == JsSlice(nodeTokens, inputLimit - tc - 1)

\* variant of VisitText that charges characters instead of tokens
VisitText_CountChars(nodeText, chat_role, tc) ==
    LET inputLimit == getTokenLimit(settings)
        nodeTokens == Encode(nodeText)
        keepTokens == KeepTokens(nodeTokens, tc, inputLimit)
        truncateTextTo == Len(Decode(keepTokens))
    IN  IF ExceedsLimit(tc, nodeTokens, inputLimit)
        THEN [emit |-> <<TextMessage(JsSlice(nodeText, truncateTextTo), chat_role)>>,
              tokenCount |-> tc + truncateTextTo,
              shouldContinue |-> FALSE, truncated |-> TRUE]
        ELSE [emit |-> <<TextMessage(nodeText, chat_role)>>,
              tokenCount |-> tc + Len(nodeText),
              shouldContinue |-> TRUE, truncated |-> FALSE]

\* the text branch of the visitor: the message emitted, the new token count,
\* the return value, and whether the node was truncated
VisitText(nodeText, chat_role, tc) ==
    LET inputLimit == getTokenLimit(settings)
        nodeTokens == Encode(nodeText)
        keepTokens == KeepTokens(nodeTokens, tc, inputLimit)
        truncateTextTo == Len(Decode(keepTokens))
    IN  IF ExceedsLimit(tc, nodeTokens, inputLimit)
        THEN [emit |-> <<TextMessage(JsSlice(nodeText, truncateTextTo), chat_role)>>,
              tokenCount |-> tc + Len(keepTokens),
              shouldContinue |-> FALSE, truncated |-> TRUE]
        ELSE [emit |-> <<TextMessage(nodeText, chat_role)>>,
              tokenCount |-> tc + Len(nodeTokens),
              shouldContinue |-> TRUE, truncated |-> FALSE]

Skip(tc, shouldContinue) ==
    [emit |-> <<>>, tokenCount |-> tc,
     shouldContinue |-> shouldContinue, truncated |-> FALSE]

\* variant of visit that drops an image once the budget is used up
visit_ImageBudgeted(node, depth, tc) ==
    LET nodeText == Trim(readNodeContent(node))
    IN  IF BeyondMaxDepth(depth) THEN Skip(tc, FALSE)
        ELSE IF nodeText = <<>> THEN Skip(tc, TRUE)
        ELSE IF StartsWith(nodeText, ImageSentinel)
             THEN IF tc >= getTokenLimit(settings) THEN Skip(tc, FALSE)
                  ELSE [emit |-> <<ImageMessage(nodeText)>>, tokenCount |-> tc,
                        shouldContinue |-> TRUE, truncated |-> FALSE]
        ELSE IF isSystemPromptNode(nodeText) THEN Skip(tc, TRUE)
        ELSE VisitText(nodeText, nodes[node].chat_role, tc)

\* variant of visit without the system-prompt-marker test
visit_PromptAsText(node, depth, tc) ==
    LET nodeText == Trim(readNodeContent(node))
    IN  IF BeyondMaxDepth(depth) THEN Skip(tc, FALSE)
        ELSE IF nodeText = <<>> THEN Skip(tc, TRUE)
        ELSE IF StartsWith(nodeText, ImageSentinel)
             THEN [emit |-> <<ImageMessage(nodeText)>>, tokenCount |-> tc,
                   shouldContinue |-> TRUE, truncated |-> FALSE]
        ELSE VisitText(nodeText, nodes[node].chat_role, tc)

\* the visitor of buildMessages for one (node, depth), at running count tc
visit(node, depth, tc) ==
    LET nodeText == Trim(readNodeContent(node))
    IN  IF BeyondMaxDepth(depth) THEN Skip(tc, FALSE)
        ELSE IF nodeText = <<>> THEN Skip(tc, TRUE)
        ELSE IF StartsWith(nodeText, ImageSentinel)
             THEN [emit |-> <<ImageMessage(nodeText)>>, tokenCount |-> tc,
                   shouldContinue |-> TRUE, truncated |-> FALSE]
        ELSE IF isSystemPromptNode(nodeText) THEN Skip(tc, TRUE)
        ELSE VisitText(nodeText, nodes[node].chat_role, tc)

\* variant of Visit that appends (push) where the code prepends (unshift)
Visit_Push ==
    /\ pc = "visit"
    /\ stack # <<>>
    /\ LET cur == Head(stack)
           v == visit(cur.node, cur.depth, tokenCount)
       IN  /\ messages' = messages \o v.emit
           /\ origin' = origin \o
                         (IF v.emit = <<>> THEN <<>>
                          ELSE << [node |-> cur.node, depth |-> cur.depth,
                                   truncated |-> v.truncated,
                                   inputLimit |-> getTokenLimit(settings),
                                   maxDepth |-> settings.maxDepth] >>)
           /\ tokenCount' = v.tokenCount
           /\ truncations' = truncations + (IF v.truncated THEN 1 ELSE 0)
           /\ stack' = WalkNext(v.shouldContinue)
    /\ UNCHANGED <<overlap, nodes, parents, settings, actionPrompt, pc, foundPrompt,
                   systemPrompt, result,
                   genVars>>

\* one visitor call of buildMessages' walk
Visit ==
    /\ pc = "visit"
    /\ stack # <<>>
    /\ LET cur == Head(stack)
           v == visit(cur.node, cur.depth, tokenCount)
       IN  /\ messages' = v.emit \o messages
           /\ origin' = (IF v.emit = <<>> THEN <<>>
                         ELSE << [node |-> cur.node, depth |-> cur.depth,
                                  truncated |-> v.truncated,
                                  inputLimit |-> getTokenLimit(settings),
                                  maxDepth |-> settings.maxDepth] >>) \o origin
           /\ tokenCount' = v.tokenCount
           /\ truncations' = truncations + (IF v.truncated THEN 1 ELSE 0)
           /\ stack' = WalkNext(v.shouldContinue)
    /\ UNCHANGED <<overlap, nodes, parents, settings, actionPrompt, pc, foundPrompt,
                   systemPrompt, result,
                   genVars>>

\* ------------------------------------------------------------- buildMessages' result
SystemMessage(prompt) == [role |-> "system", type |-> "text", content |-> prompt]
ActionMessage(prompt) == [role |-> "user", type |-> "text", content |-> prompt]

\* variant of BuildResult without the messages.length test
BuildResult_NoEmptyCase(msgs, tc, prompt, action) ==
    [messages |->
         (IF prompt # <<>> THEN <<SystemMessage(prompt)>> ELSE <<>>)
         \o msgs
         \o (IF action # <<>> THEN <<ActionMessage(action)>> ELSE <<>>),
     tokenCount |->
         tc + (IF action # <<>> THEN Len(Encode(action)) ELSE 0)]

\* variant of BuildResult that pushes the system message instead of unshifting it
BuildResult_SystemLast(msgs, tc, prompt, action) ==
    IF msgs # <<>>
    THEN [messages |->
              msgs
              \o (IF prompt # <<>> THEN <<SystemMessage(prompt)>> ELSE <<>>)
              \o (IF action # <<>> THEN <<ActionMessage(action)>> ELSE <<>>),
          tokenCount |->
              tc + (IF action # <<>> THEN Len(Encode(action)) ELSE 0)]
    ELSE [messages |-> <<>>, tokenCount |-> 0]

\* variant of BuildResult that does not count the action prompt's tokens
BuildResult_ActionUncounted(msgs, tc, prompt, action) ==
    IF msgs # <<>>
    THEN [messages |->
              (IF prompt # <<>> THEN <<SystemMessage(prompt)>> ELSE <<>>)
              \o msgs
              \o (IF action # <<>> THEN <<ActionMessage(action)>> ELSE <<>>),
          tokenCount |-> tc]
    ELSE [messages |-> <<>>, tokenCount |-> 0]

\* the tail of buildMessages, after the walk
BuildResult(msgs, tc, prompt, action) ==
    IF msgs # <<>>
    THEN [messages |->
              (IF prompt # <<>> THEN <<SystemMessage(prompt)>> ELSE <<>>)
              \o msgs
              \o (IF action # <<>> THEN <<ActionMessage(action)>> ELSE <<>>),
          tokenCount |->
              tc + (IF action # <<>> THEN Len(Encode(action)) ELSE 0)]
    ELSE [messages |-> <<>>, tokenCount |-> 0]

BuildReturn ==
    /\ pc = "visit"
    /\ stack = <<>>
    /\ result' = BuildResult(messages, tokenCount, systemPrompt, actionPrompt)
    /\ pc' = "done"
    /\ UNCHANGED <<overlap, nodes, parents, settings, actionPrompt, stack, foundPrompt,
                   systemPrompt, tokenCount, messages, origin, truncations,
                   genVars>>

Next ==
    \/ GetSystemPromptVisit
    \/ GetSystemPromptReturn
    \/ Visit
    \/ BuildReturn

Spec == Init /\ [][Next]_vars

\* ------------------------------------------------------------- five-token chains
\* buildMessages on chains of text notes of five tokens each, with input
\* limits around twelve
FiveTokenNoteA ==
    [text |-> <<"a", "b", "c", "a", "b", "c", "a">>, chat_role |-> "none"]
FiveTokenNoteB ==
    [text |-> <<"c", "a", "b", "c", "a", "b", "c">>, chat_role |-> "assistant"]
FiveTokenNoteC ==
    [text |-> <<"a", "b", "a", "b", "a", "b", "c", "a", "b">>, chat_role |-> "none"]

FiveTokenNotes == { FiveTokenNoteA, FiveTokenNoteB, FiveTokenNoteC }

FiveTokenLimits == { 11, 12, 13 }

InitFiveTokens ==
    /\ parents \in { ChainParents(n) : n \in 1..MaxChain }
    /\ nodes \in [DOMAIN parents -> FiveTokenNotes]
    /\ settings \in [maxInputTokens : FiveTokenLimits,
                     maxDepth : {0},
                     systemPrompt : DefaultPrompts]
    /\ actionPrompt \in ActionPrompts
    /\ pc = "getSystemPrompt"
    /\ stack = WalkStart(1)
    /\ foundPrompt = <<>>
    /\ systemPrompt = <<>>
    /\ tokenCount = 0
    /\ messages = <<>>
    /\ origin = <<>>
    /\ truncations = 0
    /\ result = NoResult
    /\ NotGenerating

SpecFiveTokens == InitFiveTokens /\ [][Next]_vars

\* ------------------------------------------------------------- wide characters
\* buildMessages on chains of text notes that hold a character encoded as
\* two tokens
WideNoteA ==
    [text |-> <<"a", "b", WideChar, "c">>, chat_role |-> "none"]
WideNoteB ==
    [text |-> <<WideChar, WideChar>>, chat_role |-> "assistant"]

WideNotes == { WideNoteA, WideNoteB, TextNote1 }

InitWideChar ==
    /\ parents \in { ChainParents(n) : n \in 1..MaxChain }
    /\ nodes \in [DOMAIN parents -> WideNotes]
    /\ settings \in [maxInputTokens : 1..(MaxInputTokens + 2),
                     maxDepth : {0},
                     systemPrompt : {<<>>}]
    /\ actionPrompt \in ActionPrompts
    /\ pc = "getSystemPrompt"
    /\ stack = WalkStart(1)
    /\ foundPrompt = <<>>
    /\ systemPrompt = <<>>
    /\ tokenCount = 0
    /\ messages = <<>>
    /\ origin = <<>>
    /\ truncations = 0
    /\ result = NoResult
    /\ NotGenerating

SpecWideChar == InitWideChar /\ [][Next]_vars

\* ------------------------------------------------------------- settings tab
\* buildMessages while the settings tab is open: text notes on chains, any
\* input limit and maximum depth
InitSettingsTab ==
    /\ parents \in { ChainParents(n) : n \in 1..MaxChain }
    /\ nodes \in [DOMAIN parents -> {TextNote1, TextNote4}]
    /\ settings \in [maxInputTokens : 0..MaxInputTokens,
                     maxDepth : 0..MaxDepthSetting,
                     systemPrompt : {<<>>}]
    /\ actionPrompt = <<>>
    /\ pc = "getSystemPrompt"
    /\ stack = WalkStart(1)
    /\ foundPrompt = <<>>
    /\ systemPrompt = <<>>
    /\ tokenCount = 0
    /\ messages = <<>>
    /\ origin = <<>>
    /\ truncations = 0
    /\ result = NoResult
    /\ NotGenerating

\* onChange of 'Max input tokens': this.plugin.settings.maxInputTokens = parsed,
\* run at an await point of a walk; the generator holds the same settings object
MaxInputTokensChange ==
    /\ pc \in {"getSystemPrompt", "visit"}
    /\ \E parsed \in 0..MaxInputTokens :
           /\ parsed # settings.maxInputTokens
           /\ settings' = [settings EXCEPT !.maxInputTokens = parsed]
    /\ UNCHANGED <<overlap, nodes, parents, actionPrompt, pc, stack, foundPrompt,
                   systemPrompt, tokenCount, messages, origin, truncations,
                   result, genVars>>

\* onChange of 'Max depth': this.plugin.settings.maxDepth = parsed
MaxDepthChange ==
    /\ pc \in {"getSystemPrompt", "visit"}
    /\ \E parsed \in 0..MaxDepthSetting :
           /\ parsed # settings.maxDepth
           /\ settings' = [settings EXCEPT !.maxDepth = parsed]
    /\ UNCHANGED <<overlap, nodes, parents, actionPrompt, pc, stack, foundPrompt,
                   systemPrompt, tokenCount, messages, origin, truncations,
                   result, genVars>>

NextSettingsTab ==
    \/ GetSystemPromptVisit
    \/ GetSystemPromptReturn
    \/ Visit
    \/ BuildReturn
    \/ MaxInputTokensChange
    \/ MaxDepthChange

SpecSettingsTab == InitSettingsTab /\ [][NextSettingsTab]_vars

\* ------------------------------------------------------------- getChatGPTCompletion
\* an optional array-valued field of a JSON object
Absent == [present |-> FALSE, items |-> <<>>]
Present(items) == [present |-> TRUE, items |-> items]

\* content items of a response
TextItem(t) == [type |-> "output_text", text |-> t]
RefusalItem == [type |-> "refusal", text |-> <<"n", "o">>]

ContentArrays ==
    { <<>>,
      <<RefusalItem>>,
      <<TextItem(<<"H">>), RefusalItem, TextItem(<<"i", "!">>)>> }

\* output messages: with or without a content array
OutputMessage(content) == [content |-> content]

OutputArrays ==
    { <<>>,
      <<OutputMessage(Absent)>>,
      <<OutputMessage(Present(<<RefusalItem>>))>>,
      <<OutputMessage(Present(<<TextItem(<<"H">>), TextItem(<<"i">>)>>)),
        OutputMessage(Present(<<TextItem(<<"x">>)>>))>> }

OutputTexts == { Undefined, Defined(<<>>), Defined(<<"O", "k">>) }

\* what the endpoint can answer with success: a body that is not JSON, the
\* JSON value null, or a JSON object with any of the fields content, output
\* and output_text
JsonObject(content, output, output_text) ==
    [kind |-> "object", content |-> content, output |-> output,
     output_text |-> output_text]
JsonNull == [kind |-> "null", content |-> Absent, output |-> Absent,
             output_text |-> Undefined]
NotJson == [kind |-> "unparsable", content |-> Absent, output |-> Absent,
            output_text |-> Undefined]

ResponseBodies ==
    { NotJson, JsonNull }
    \cup { JsonObject(c, o, t) :
               c \in {Absent} \cup { Present(a) : a \in ContentArrays },
               o \in {Absent} \cup { Present(a) : a \in OutputArrays },
               t \in OutputTexts }

\* what request() can reject with
RequestErrors ==
    [code : {429, 500}, message : {"Request failed", "net::ERR_FAILED"}]

SyntaxError == [code |-> 0, message |-> "Unexpected token"]

\* items.filter(item => item.type === "output_text").map(item => item.text).join('')
RECURSIVE JoinOutputText(_)
JoinOutputText(items) ==
    IF items = <<>> THEN <<>>
    ELSE (IF Head(items).type = "output_text" THEN Head(items).text ELSE <<>>)
         \o JoinOutputText(Tail(items))

\* variant of ExtractText that returns the first output message's
\* concatenation also when it is empty
ExtractText_EmptyKept(res) ==
    IF res.kind = "object" /\ res.content.present
    THEN Defined(JoinOutputText(res.content.items))
    ELSE IF /\ res.kind = "object"
            /\ res.output.present
            /\ res.output.items # <<>>
            /\ res.output.items[1].content.present
    THEN Defined(JoinOutputText(res.output.items[1].content.items))
    ELSE IF res.kind = "object" THEN res.output_text
    ELSE Undefined

\* the value getChatGPTCompletion returns for a parsed response
ExtractText(res) ==
    IF res.kind = "object" /\ res.content.present
    THEN Defined(JoinOutputText(res.content.items))
    ELSE IF /\ res.kind = "object"
            /\ res.output.present
            /\ res.output.items # <<>>
            /\ res.output.items[1].content.present
    THEN LET textContent == JoinOutputText(res.output.items[1].content.items)
         IN  IF textContent # <<>> THEN Defined(textContent) ELSE Undefined
    ELSE IF res.kind = "object" THEN res.output_text
    ELSE Undefined

Returned(value) == [kind |-> "returned", value |-> value, error |-> NoError]
Threw(err) == [kind |-> "threw", value |-> Undefined, error |-> err]

\* the try block of getChatGPTCompletion once request() has settled:
\* outcome.ok tells whether request() resolved, with outcome.body as the
\* response text, or rejected with outcome.error
Completion(outcome) ==
    IF ~outcome.ok THEN Threw(outcome.error)
    ELSE IF outcome.body.kind = "unparsable" THEN Threw(SyntaxError)
    ELSE Returned(ExtractText(outcome.body))

\* the console.error lines of the catch block
CatchLog(outcome) ==
    IF Completion(outcome).kind # "threw" THEN <<>>
    ELSE <<"OpenAI API request failed">>
         \o (IF Completion(outcome).error.code = 429
             THEN <<"OpenAI API rate limit exceeded">> ELSE <<>>)

Outcomes ==
    { [ok |-> TRUE, body |-> b, error |-> NoError] : b \in ResponseBodies }
    \cup { [ok |-> FALSE, body |-> NoBody, error |-> e] : e \in RequestErrors }

\* ------------------------------------------------------------- generateNote
\* settings.actions
ReplyAction == ChatStreamAction("a1", "Reply", <<>>)
SummarizeAction == ChatStreamAction("a2", "Summarize", <<"c", "a">>)

\* an action as the settings tab's 'Add Action' button makes it
UnnamedAction == ChatStreamAction("a3", "", <<>>)

ActionLists ==
    { <<>>,
      <<ReplyAction>>,
      <<SummarizeAction, ReplyAction>>,
      <<UnnamedAction, SummarizeAction>> }

\* contents of the canvas nodes generateNote is run on
GenerateNotes == { BlankNote, TextNote1 }

\* id of the node createNode adds to the canvas
CreatedId == Cardinality(DOMAIN nodes) + 1

\* `Calling AI (${settings.apiModel})...`
CallingAI == <<"C", "a", "l", "l", "i", "n", "g", " ", "A", "I">>

\* canvas operations: createNode puts a node with the given text and role
\* next to its reference node and adds no edge; removeNode takes a node off the
\* canvas; addEdge adds one directed, labeled edge
createNode(text, chat_role) ==
    [exists |-> TRUE, text |-> text, chat_role |-> chat_role]
removeNode(node) == NoNode
addEdge(es, from, to, label) ==
    es \cup { [from |-> from, to |-> to, label |-> label] }
setText(node, text) == [node EXCEPT !.text = text]

\* Notices
ApiKeyNotice == [kind |-> "apiKey", detail |-> ""]
SendingNotice == [kind |-> "sending", detail |-> ""]
EmptyNotice == [kind |-> "empty", detail |-> ""]
\* `Error calling GPT: ${error.message || error}`
ErrorNotice(err) == [kind |-> "error", detail |-> err.message]

\* reading action.name when action is undefined
TypeError ==
    [code |-> 0, message |-> "Cannot read properties of undefined"]

InitGenerate ==
    /\ parents \in { ChainParents(n) : n \in 1..MaxGenChain }
    /\ nodes \in [DOMAIN parents -> GenerateNotes]
    /\ settings \in [maxInputTokens : {0},
                     maxDepth : {0},
                     systemPrompt : DefaultPrompts]
    /\ actionPrompt = <<>>
    /\ pc = "idle"
    /\ stack = <<>>
    /\ foundPrompt = <<>>
    /\ systemPrompt = <<>>
    /\ tokenCount = 0
    /\ messages = <<>>
    /\ origin = <<>>
    /\ truncations = 0
    /\ result = NoResult
    /\ config \in [apiKey : {"", "sk"}, actions : ActionLists,
                   apiModel : {DefaultModel}, maxResponseTokens : {0},
                   temperature : {1}]
    /\ canvasOpen \in BOOLEAN
    /\ selection \in { {}, {1}, DOMAIN nodes }
    /\ gpc = "idle"
    /\ invokedAction = NoAction
    /\ created = NoNode
    /\ edges = {}
    /\ notices = <<>>
    /\ requests = <<>>
    /\ response = NoResponse
    /\ completion = NoCompletion
    /\ consoleLog = <<>>
    /\ overlap = NoOverlap

\* generateNote(act, prompt) called with the canvas selection sel, up to the
\* call of buildMessages: the early returns, then the walk from the selected
\* node
generateNote(act, prompt, sel) ==
    LET proceeds == config.apiKey # "" /\ canvasOpen /\ Cardinality(sel) = 1
    IN  /\ invokedAction' = act
        /\ actionPrompt' = prompt
        /\ selection' = sel
        /\ notices' = IF config.apiKey = "" THEN Append(notices, ApiKeyNotice)
                      ELSE notices
        /\ gpc' = IF proceeds THEN "building" ELSE "ended"
        /\ pc' = IF proceeds THEN "getSystemPrompt" ELSE pc
        /\ stack' = IF proceeds THEN WalkStart(1) ELSE stack
        /\ UNCHANGED <<overlap, nodes, parents, settings, foundPrompt, systemPrompt,
                       tokenCount, messages, origin, truncations, result,
                       config, canvasOpen, created, edges, requests,
                       response, completion, consoleLog>>

\* a handler that returns without calling generateNote
NothingInvoked ==
    /\ gpc' = "ended"
    /\ UNCHANGED <<overlap, nodes, parents, settings, actionPrompt, pc, stack,
                   foundPrompt, systemPrompt, tokenCount, messages, origin,
                   truncations, result, config, canvasOpen, selection,
                   invokedAction, created, edges, notices, requests,
                   response, completion, consoleLog>>

\* command 'generate-note'
CommandGenerate ==
    /\ gpc = "idle"
    /\ IF config.actions # <<>>
       THEN generateNote(config.actions[1], <<>>, selection)
       ELSE NothingInvoked

\* menu item 'ChatStream: Generate Content' on node 1
MenuGenerateContent ==
    /\ gpc = "idle"
    /\ canvasOpen
    /\ IF config.actions # <<>>
       THEN generateNote(config.actions[1], <<>>, {1})
       ELSE /\ gpc' = "ended"
            /\ selection' = {1}
            /\ UNCHANGED <<overlap, nodes, parents, settings, actionPrompt, pc, stack,
                           foundPrompt, systemPrompt, tokenCount, messages,
                           origin, truncations, result, config, canvasOpen,
                           invokedAction, created, edges, notices, requests,
                           response, completion, consoleLog>>

\* menu item of the i-th action of settings.actions, on node 1
MenuAction(i) ==
    /\ gpc = "idle"
    /\ canvasOpen
    /\ config.actions[i].id # ""
    /\ config.actions[i].name # ""
    /\ IF config.actions[i].prompt # <<>>
       THEN generateNote(config.actions[i], config.actions[i].prompt, {1})
       ELSE NothingInvoked

\* command 'generate-note' of the onload that calls generateNote()
\* ------------------------------------------------------------- request body
O3Mini == <<"o", "3", "-", "m", "i", "n", "i">>
O3 == <<"o", "3">>
Gpt4oMini == <<"g", "p", "t", "-", "4", "o", "-", "m", "i", "n", "i">>
Gpt4o == <<"g", "p", "t", "-", "4", "o">>

\* variant of the model mapping that only looks at the prefix
NormalizeModel_PrefixOnly(model) ==
    IF model # <<>> /\ StartsWith(model, O3) THEN Gpt4o ELSE model

\* getChatGPTCompletion's modelName
NormalizeModel(model) ==
    IF model = O3Mini THEN Gpt4oMini
    ELSE IF model # <<>> /\ StartsWith(model, O3) THEN Gpt4o
    ELSE model

\* JSON.stringify of the content array of an image message
JsonStringify(url) ==
    <<"[{\"type\":\"image_url\",\"image_url\":{\"url\":\"">> \o url \o <<"\"}}]">>

FormattedMessage(msg) ==
    [role |-> msg.role,
     content |-> IF msg.type = "text" THEN msg.content
                 ELSE JsonStringify(msg.content)]

\* input.map(msg => ({role, content}))
FormattedInput(input) == [i \in 1..Len(input) |-> FormattedMessage(input[i])]

\* settings.maxResponseTokens || undefined
MaxTokens(n) ==
    IF n = 0 THEN [defined |-> FALSE, value |-> 0]
    ELSE [defined |-> TRUE, value |-> n]

\* the options generateNote passes
GenerationOptions(cfg) ==
    [max_tokens |-> MaxTokens(cfg.maxResponseTokens),
     temperature |-> cfg.temperature]

\* object spread {...a, ...b}: the keys of b win
Spread(a, b) ==
    [k \in DOMAIN a \cup DOMAIN b |-> IF k \in DOMAIN b THEN b[k] ELSE a[k]]

\* variant of RequestBody that sends the model argument as given
RequestBody_RawModel(model, input, options) ==
    Spread([input |-> FormattedInput(input), model |-> model], options)

\* {input: formattedInput, model: modelName, ...settings}
RequestBody(model, input, options) ==
    Spread([input |-> FormattedInput(input), model |-> NormalizeModel(model)],
           options)

\* the body of the request generateNote's call sends
SentBody ==
    RequestBody(config.apiModel, result.messages, GenerationOptions(config))

\* model names of the settings tab's dropdown and text of its own
ModelNames ==
    { DefaultModel, O3Mini, O3, O3 \o <<"-", "p", "r", "o">>,
      O3Mini \o <<"x">>, Gpt4o, <<"g", "o", "3">>, <<>> }

GenerateImageNotes == { TextNote1, ImageNote }

\* generateNote with any model name, response limit and temperature, on
\* chains of text and image notes
InitModels ==
    /\ parents \in { ChainParents(n) : n \in 1..MaxGenChain }
    /\ nodes \in [DOMAIN parents -> GenerateImageNotes]
    /\ settings \in [maxInputTokens : {0},
                     maxDepth : {0},
                     systemPrompt : DefaultPrompts]
    /\ actionPrompt = <<>>
    /\ pc = "idle"
    /\ stack = <<>>
    /\ foundPrompt = <<>>
    /\ systemPrompt = <<>>
    /\ tokenCount = 0
    /\ messages = <<>>
    /\ origin = <<>>
    /\ truncations = 0
    /\ result = NoResult
    /\ config \in [apiKey : {"sk"}, actions : { <<ReplyAction>> },
                   apiModel : ModelNames, maxResponseTokens : {0, 1},
                   temperature : {0, 1}]
    /\ canvasOpen = TRUE
    /\ selection = {1}
    /\ gpc = "idle"
    /\ invokedAction = NoAction
    /\ created = NoNode
    /\ edges = {}
    /\ notices = <<>>
    /\ requests = <<>>
    /\ response = NoResponse
    /\ completion = NoCompletion
    /\ consoleLog = <<>>
    /\ overlap = NoOverlap

CommandGenerateNoAction ==
    /\ gpc = "idle"
    /\ generateNote(NoAction, <<>>, selection)

\* menu item 'ChatStream: Generate Content' of the onload that calls
\* generateNote()
MenuGenerateContentNoAction ==
    /\ gpc = "idle"
    /\ canvasOpen
    /\ generateNote(NoAction, <<>>, {1})

\* variant of BuildDone that creates the placeholder before looking at the
\* messages
BuildDone_PlaceholderFirst ==
    /\ gpc = "building"
    /\ pc = "done"
    /\ created' = createNode(CallingAI, "assistant")
    /\ IF result.messages = <<>>
       THEN /\ gpc' = "ended"
            /\ UNCHANGED <<notices, requests>>
       ELSE /\ notices' = Append(notices, SendingNotice)
            /\ requests' = Append(requests, SentBody)
            /\ gpc' = "requesting"
    /\ UNCHANGED <<overlap, nodes, parents, settings, actionPrompt, pc, stack,
                   foundPrompt, systemPrompt, tokenCount, messages, origin,
                   truncations, result, config, canvasOpen, selection,
                   invokedAction, edges, response, completion, consoleLog>>

\* generateNote once buildMessages has returned: nothing to send, or the
\* placeholder node, the Notice and the request
BuildDone ==
    /\ gpc = "building"
    /\ pc = "done"
    /\ IF result.messages = <<>>
       THEN /\ gpc' = "ended"
            /\ UNCHANGED <<created, notices, requests>>
       ELSE /\ created' = createNode(CallingAI, "assistant")
            /\ notices' = Append(notices, SendingNotice)
            /\ requests' = Append(requests, SentBody)
            /\ gpc' = "requesting"
    /\ UNCHANGED <<overlap, nodes, parents, settings, actionPrompt, pc, stack,
                   foundPrompt, systemPrompt, tokenCount, messages, origin,
                   truncations, result, config, canvasOpen, selection,
                   invokedAction, edges, response, completion, consoleLog>>

\* the user changes the selection while the request is in flight: clears it,
\* selects node 2 (the parent of node 1 if it has one, else the placeholder),
\* or selects nodes 1 and 2
UserSelects ==
    /\ gpc = "requesting"
    /\ \E s \in { {}, {2}, {1, 2} } :
           /\ s # selection
           /\ selection' = s
    /\ UNCHANGED <<overlap, nodes, parents, settings, actionPrompt, pc, stack,
                   foundPrompt, systemPrompt, tokenCount, messages, origin,
                   truncations, result, config, canvasOpen, gpc,
                   invokedAction, created, edges, notices, requests,
                   response, completion, consoleLog>>

\* request() settles and getChatGPTCompletion runs to its end
RequestSettles ==
    /\ gpc = "requesting"
    /\ \E outcome \in Outcomes :
           /\ response' = outcome
           /\ completion' = Completion(outcome)
           /\ consoleLog' = consoleLog \o CatchLog(outcome)
    /\ gpc' = "settled"
    /\ UNCHANGED <<overlap, nodes, parents, settings, actionPrompt, pc, stack,
                   foundPrompt, systemPrompt, tokenCount, messages, origin,
                   truncations, result, config, canvasOpen, selection,
                   invokedAction, created, edges, notices, requests>>

\* variant of SelectionAfterReply that always selects the reply node
SelectionAfterReply_Always(sel) == {CreatedId}

\* the selection once the reply is linked: selectedNoteId is the id of the
\* single selected node, else undefined; the reply node is selected when
\* selectedNoteId is the source node's id or undefined
SelectionAfterReply(sel) ==
    IF Cardinality(sel) # 1 \/ sel = {1} THEN {CreatedId} ELSE sel

\* variant of Catch that leaves the placeholder on the canvas
Catch_KeepNode(err) ==
    /\ notices' = Append(notices, ErrorNotice(err))
    /\ UNCHANGED <<created, edges, selection>>

\* the catch block of generateNote
Catch(err) ==
    /\ notices' = Append(notices, ErrorNotice(err))
    /\ created' = removeNode(created)
    /\ UNCHANGED <<edges, selection>>

\* variant of Integrate that sends the request again after a failure
Integrate_Retry ==
    /\ gpc = "settled"
    /\ IF completion.kind = "threw"
       THEN /\ gpc' = "requesting"
            /\ requests' = Append(requests, requests[Len(requests)])
            /\ UNCHANGED <<notices, created, edges, selection>>
       ELSE /\ gpc' = "ended"
            /\ UNCHANGED requests
            /\ IF ~completion.value.defined
               THEN /\ notices' = Append(notices, EmptyNotice)
                    /\ created' = removeNode(created)
                    /\ UNCHANGED <<edges, selection>>
               ELSE IF ~invokedAction.defined
               THEN Catch(TypeError)
               ELSE /\ created' = setText(created, completion.value.text)
                    /\ edges' = addEdge(edges, 1, CreatedId, invokedAction.name)
                    /\ selection' = SelectionAfterReply(selection)
                    /\ UNCHANGED notices
    /\ UNCHANGED <<overlap, nodes, parents, settings, actionPrompt, pc, stack,
                   foundPrompt, systemPrompt, tokenCount, messages, origin,
                   truncations, result, config, canvasOpen, invokedAction,
                   response, completion, consoleLog>>

\* variant of Integrate whose try block has no catch for what is thrown
\* after setText
Integrate_NoCatch ==
    /\ gpc = "settled"
    /\ IF completion.kind = "threw"
       THEN Catch(completion.error)
       ELSE IF ~completion.value.defined
       THEN /\ notices' = Append(notices, EmptyNotice)
            /\ created' = removeNode(created)
            /\ UNCHANGED <<edges, selection>>
       ELSE IF ~invokedAction.defined
       THEN /\ created' = setText(created, completion.value.text)
            /\ UNCHANGED <<edges, selection, notices>>
       ELSE /\ created' = setText(created, completion.value.text)
            /\ edges' = addEdge(edges, 1, CreatedId, invokedAction.name)
            /\ selection' = SelectionAfterReply(selection)
            /\ UNCHANGED notices
    /\ gpc' = "ended"
    /\ UNCHANGED <<overlap, nodes, parents, settings, actionPrompt, pc, stack,
                   foundPrompt, systemPrompt, tokenCount, messages, origin,
                   truncations, result, config, canvasOpen, invokedAction,
                   requests, response, completion, consoleLog>>

\* generateNote once getChatGPTCompletion has settled: the reply is put into
\* the placeholder and linked to the source node, or the placeholder is removed
Integrate ==
    /\ gpc = "settled"
    /\ IF completion.kind = "threw"
       THEN Catch(completion.error)
       ELSE IF ~completion.value.defined
       THEN /\ notices' = Append(notices, EmptyNotice)
            /\ created' = removeNode(created)
            /\ UNCHANGED <<edges, selection>>
       ELSE IF ~invokedAction.defined
       THEN Catch(TypeError)
       ELSE /\ created' = setText(created, completion.value.text)
            /\ edges' = addEdge(edges, 1, CreatedId, invokedAction.name)
            /\ selection' = SelectionAfterReply(selection)
            /\ UNCHANGED notices
    /\ gpc' = "ended"
    /\ UNCHANGED <<overlap, nodes, parents, settings, actionPrompt, pc, stack,
                   foundPrompt, systemPrompt, tokenCount, messages, origin,
                   truncations, result, config, canvasOpen, invokedAction,
                   requests, response, completion, consoleLog>>

NextGenerate ==
    \/ CommandGenerate
    \/ MenuGenerateContent
    \/ \E i \in DOMAIN config.actions : MenuAction(i)
    \/ CommandGenerateNoAction
    \/ MenuGenerateContentNoAction
    \/ GetSystemPromptVisit
    \/ GetSystemPromptReturn
    \/ Visit
    \/ BuildReturn
    \/ BuildDone
    \/ UserSelects
    \/ RequestSettles
    \/ Integrate

SpecGenerate == InitGenerate /\ [][NextGenerate]_vars

SpecModels == InitModels /\ [][NextGenerate]_vars

\* generateNote when the request promise settles and the continuation after
\* each await is run
SpecGenerateFair ==
    SpecGenerate /\ WF_vars(RequestSettles) /\ WF_vars(Integrate)

\* ------------------------------------------------------------- overlapping invocations
\* generateNote triggered again while a request is pending.  Each invocation
\* keeps its own node (the source) and created (the placeholder): here the
\* canvas is nodes, parents (the incoming edges), edges and overlap.removed,
\* and buildMessages runs in one step.

\* buildMessages' walk from a node up its chain of single parents
RECURSIVE WalkChain(_, _, _)
WalkChain(node, depth, tc) ==
    LET v == visit(node, depth, tc)
    IN  IF v.shouldContinue /\ parents[node] # <<>>
        THEN LET up == WalkChain(parents[node][1], depth + 1, v.tokenCount)
             IN  [messages |-> up.messages \o v.emit,
                  tokenCount |-> up.tokenCount]
        ELSE [messages |-> v.emit, tokenCount |-> v.tokenCount]

\* buildMessages(node) without a system prompt and an action prompt
BuiltFrom(node) ==
    LET walk == WalkChain(node, 0, 0)
    IN  BuildResult(walk.messages, walk.tokenCount, <<>>, <<>>)

OnCanvas == DOMAIN nodes \ overlap.removed

InitOverlap ==
    /\ parents \in { ChainParents(n) : n \in 1..MaxGenChain }
    /\ nodes \in [DOMAIN parents -> GenerateNotes]
    /\ settings = [maxInputTokens |-> 0, maxDepth |-> 0, systemPrompt |-> <<>>]
    /\ actionPrompt = <<>>
    /\ pc = "idle"
    /\ stack = <<>>
    /\ foundPrompt = <<>>
    /\ systemPrompt = <<>>
    /\ tokenCount = 0
    /\ messages = <<>>
    /\ origin = <<>>
    /\ truncations = 0
    /\ result = NoResult
    /\ config = [apiKey |-> "sk", actions |-> <<ReplyAction>>,
                 apiModel |-> DefaultModel, maxResponseTokens |-> 0,
                 temperature |-> 1]
    /\ canvasOpen = TRUE
    /\ selection = {1}
    /\ gpc = "none"
    /\ invokedAction = NoAction
    /\ created = NoNode
    /\ edges = {}
    /\ notices = <<>>
    /\ requests = <<>>
    /\ response = NoResponse
    /\ completion = NoCompletion
    /\ consoleLog = <<>>
    /\ overlap = NoOverlap

\* command 'generate-note' while invocation i has not run yet: generateNote up
\* to its await of getChatGPTCompletion, on the single selected node
OverlapInvoke(i) ==
    /\ overlap.inv[i].pc = "idle"
    /\ \A j \in Invocations : j < i => overlap.inv[j].pc # "idle"
    /\ Cardinality(selection) = 1
    /\ \E node \in selection \cap OnCanvas :
           LET built == BuiltFrom(node)
               id == Len(nodes) + 1
           IN  IF built.messages = <<>>
               THEN /\ overlap' = [overlap EXCEPT !.inv[i].pc = "ended",
                                                  !.inv[i].source = node]
                    /\ UNCHANGED <<nodes, parents, notices, requests>>
               ELSE /\ nodes' = Append(nodes, [text |-> CallingAI,
                                               chat_role |-> "assistant"])
                    /\ parents' = Append(parents, <<>>)
                    /\ notices' = Append(notices, SendingNotice)
                    /\ requests' = Append(requests,
                           RequestBody(config.apiModel, built.messages,
                                       GenerationOptions(config)))
                    /\ overlap' = [overlap EXCEPT
                                      !.inv[i].pc = "requesting",
                                      !.inv[i].source = node,
                                      !.inv[i].created = id]
    /\ UNCHANGED <<settings, actionPrompt, pc, stack, foundPrompt,
                   systemPrompt, tokenCount, messages, origin, truncations,
                   result, config, canvasOpen, selection, gpc, invokedAction,
                   created, edges, response, completion, consoleLog>>

\* the user selects one node of the canvas, or nothing
OverlapSelects ==
    /\ \E s \in { {} } \cup { {n} : n \in OnCanvas } :
           s # selection /\ selection' = s
    /\ UNCHANGED <<overlap, nodes, parents, settings, actionPrompt, pc, stack,
                   foundPrompt, systemPrompt, tokenCount, messages, origin,
                   truncations, result, config, canvasOpen, gpc,
                   invokedAction, created, edges, notices, requests,
                   response, completion, consoleLog>>

\* the request of invocation i settles and getChatGPTCompletion runs to its end
OverlapSettles(i) ==
    /\ overlap.inv[i].pc = "requesting"
    /\ \E outcome \in Outcomes :
           /\ overlap' = [overlap EXCEPT
                             !.inv[i].pc = "settled",
                             !.inv[i].completion = Completion(outcome)]
           /\ consoleLog' = consoleLog \o CatchLog(outcome)
    /\ UNCHANGED <<nodes, parents, settings, actionPrompt, pc, stack,
                   foundPrompt, systemPrompt, tokenCount, messages, origin,
                   truncations, result, config, canvasOpen, selection, gpc,
                   invokedAction, created, edges, notices, requests,
                   response, completion>>

\* invocation i after its await: the catch block, the empty reply, or
\* setText, addEdge and the selection
OverlapIntegrate(i) ==
    LET me == overlap.inv[i]
    IN  /\ me.pc = "settled"
        /\ IF me.completion.kind = "threw"
           THEN /\ notices' = Append(notices, ErrorNotice(me.completion.error))
                /\ overlap' = [overlap EXCEPT
                                  !.inv[i].pc = "ended",
                                  !.removed = @ \cup {me.created}]
                /\ UNCHANGED <<nodes, parents, edges, selection>>
           ELSE IF ~me.completion.value.defined
           THEN /\ notices' = Append(notices, EmptyNotice)
                /\ overlap' = [overlap EXCEPT
                                  !.inv[i].pc = "ended",
                                  !.removed = @ \cup {me.created}]
                /\ UNCHANGED <<nodes, parents, edges, selection>>
           ELSE /\ nodes' = [nodes EXCEPT
                                ![me.created].text = me.completion.value.text]
                /\ edges' = addEdge(edges, me.source, me.created,
                                    config.actions[1].name)
                /\ parents' = [parents EXCEPT ![me.created] = <<me.source>>]
                /\ selection' =
                       IF Cardinality(selection) # 1 \/ selection = {me.source}
                       THEN {me.created} ELSE selection
                /\ overlap' = [overlap EXCEPT !.inv[i].pc = "ended"]
                /\ UNCHANGED notices
        /\ UNCHANGED <<settings, actionPrompt, pc, stack, foundPrompt,
                       systemPrompt, tokenCount, messages, origin,
                       truncations, result, config, canvasOpen, gpc,
                       invokedAction, created, requests, response,
                       completion, consoleLog>>

NextOverlap ==
    \/ \E i \in Invocations : OverlapInvoke(i)
    \/ OverlapSelects
    \/ \E i \in Invocations : OverlapSettles(i)
    \/ \E i \in Invocations : OverlapIntegrate(i)

SpecOverlap == InitOverlap /\ [][NextOverlap]_vars

\* ============================================================= properties
\* helpers of the properties below
limit == getTokenLimit(settings)

WalkDone == pc = "visit" /\ stack = <<>>

IsChain == \A n \in DOMAIN parents : Len(parents[n]) <= 1

NoteKind(n) ==
    LET t == Trim(nodes[n].text)
    IN  IF t = <<>> THEN "empty"
        ELSE IF StartsWith(t, ImageSentinel) THEN "image"
        ELSE IF StartsWith(t, SystemPromptMarker) THEN "prompt"
        ELSE "text"

\* tokens of a node's full trimmed text, for the nodes that are charged
NoteTokens(n) == IF NoteKind(n) = "text" THEN Len(Encode(Trim(nodes[n].text))) ELSE 0

RECURSIVE SumNoteTokens(_)
SumNoteTokens(S) ==
    IF S = {} THEN 0
    ELSE LET n == CHOOSE m \in S : TRUE
         IN  NoteTokens(n) + SumNoteTokens(S \ {n})

\* the message a node yields when it is taken whole
WholeMessage(n) ==
    LET t == Trim(nodes[n].text)
    IN  IF NoteKind(n) = "image"
        THEN [role |-> "user", type |-> "image_url", content |-> t]
        ELSE [role |-> IF nodes[n].chat_role = "assistant" THEN "assistant" ELSE "user",
              type |-> "text", content |-> t]

\* root-to-leaf messages of the chain that starts at node n (depth d), cut at
\* depth maxd when maxd > 0
RECURSIVE ChainMessages(_, _, _)
ChainMessages(n, d, maxd) ==
    IF maxd # 0 /\ d > maxd THEN <<>>
    ELSE (IF parents[n] = <<>> THEN <<>>
          ELSE ChainMessages(parents[n][1], d + 1, maxd))
         \o (IF NoteKind(n) \in {"empty", "prompt"} THEN <<>>
             ELSE <<WholeMessage(n)>>)

\* the chain's total token count stays within the limit, system prompt included
ChainFits ==
    /\ IsChain
    /\ Len(Encode(systemPrompt)) + SumNoteTokens(DOMAIN nodes) <= limit

\* the ancestor-derived part of a returned message list
StripEnvelope(msgs) ==
    LET a == IF msgs # <<>> /\ Head(msgs).role = "system" THEN Tail(msgs) ELSE msgs
    IN  IF a # <<>> /\ actionPrompt # <<>> THEN SubSeq(a, 1, Len(a) - 1) ELSE a

RECURSIVE SumEncoded(_)
SumEncoded(msgs) ==
    IF msgs = <<>> THEN 0
    ELSE Len(Encode(Head(msgs).content)) + SumEncoded(Tail(msgs))

RECURSIVE SumEncodedText(_)
SumEncodedText(msgs) ==
    IF msgs = <<>> THEN 0
    ELSE (IF Head(msgs).type = "text" THEN Len(Encode(Head(msgs).content)) ELSE 0)
         + SumEncodedText(Tail(msgs))

\* nodes within d edges of the selected node
RECURSIVE ReachWithin(_)
ReachWithin(d) ==
    IF d = 0 THEN {1}
    ELSE LET r == ReachWithin(d - 1)
         IN  r \cup UNION { SeqRange(parents[m]) : m \in r }

WalkedNodes ==
    IF settings.maxDepth = 0 THEN DOMAIN nodes ELSE ReachWithin(settings.maxDepth)

\* order in which getSystemPrompt's walk meets the nodes from node n on
RECURSIVE PromptOrder(_)
RECURSIVE PromptOrderAll(_)
PromptOrder(n) ==
    <<n>> \o (IF isSystemPromptNode(nodes[n].text) THEN <<>>
              ELSE PromptOrderAll(parents[n]))
PromptOrderAll(ps) ==
    IF ps = <<>> THEN <<>> ELSE PromptOrder(Head(ps)) \o PromptOrderAll(Tail(ps))

MarkedInOrder == SelectSeq(PromptOrder(1), LAMBDA n : isSystemPromptNode(nodes[n].text))

\* C1: at the end of the ancestor walk, before any action prompt is added, the
\* running token count does not exceed the input-token limit (stated for a
\* resolved system prompt that is itself below the limit, as the builder assumes).
C1_BudgetWithinLimit ==
    (WalkDone /\ Len(Encode(systemPrompt)) < limit) => tokenCount <= limit

\* C2: the text of a truncated node re-encodes to at most limit - 1 tokens.
C2_TruncatedWithinMargin ==
    pc = "visit" =>
        \A i \in 1..Len(origin) :
            origin[i].truncated => Len(Encode(messages[i].content)) <= limit - 1

\* C3 (as claimed): for a chain whose total token count stays within the limit,
\* the result holds every non-empty, non-system-prompt node of the chain exactly
\* once, in root-to-leaf order.
C3_EveryChainNodeOnce ==
    (pc = "done" /\ ChainFits) =>
        StripEnvelope(result.messages) = ChainMessages(1, 0, 0)

\* C3 (amended): ... every such node within the configured maximum depth.
C3_EveryChainNodeWithinDepthOnce ==
    (pc = "done" /\ ChainFits) =>
        StripEnvelope(result.messages) = ChainMessages(1, 0, settings.maxDepth)

C3_Witness ==
    /\ pc = "done"
    /\ ChainFits
    /\ settings.maxInputTokens > 0
    /\ Len(StripEnvelope(result.messages)) = 3
    /\ \E i \in 1..3 : result.messages[i].type = "text"

\* C4 (as claimed): for a chain within the limit and no action prompt, the
\* returned tokenCount is the sum of the encoded lengths of the returned
\* messages plus the encoded length of the resolved system prompt.
C4_TokenCountIsSum ==
    (pc = "done" /\ ChainFits /\ actionPrompt = <<>>) =>
        result.tokenCount =
            SumEncoded(StripEnvelope(result.messages)) + Len(Encode(systemPrompt))

\* C4 (amended): ... when the result is not empty, the returned tokenCount is the
\* sum of the encoded lengths of the returned text messages (an image message
\* counts zero) plus the encoded length of the resolved system prompt.
C4_TokenCountIsTextSum ==
    (pc = "done" /\ ChainFits /\ actionPrompt = <<>> /\ result.messages # <<>>) =>
        result.tokenCount =
            SumEncodedText(StripEnvelope(result.messages)) + Len(Encode(systemPrompt))

C4_Witness ==
    /\ pc = "done"
    /\ ChainFits
    /\ actionPrompt = <<>>
    /\ settings.maxInputTokens > 0
    /\ systemPrompt # <<>>
    /\ result.tokenCount = 3
    /\ \E i \in 1..Len(result.messages) : result.messages[i].type = "image_url"

\* C5: no build truncates more than one node, and a build whose walked text
\* exceeds the limit truncates exactly one (stated for a resolved system prompt
\* that is itself below the limit).
C5_ExactlyOneTruncation ==
    Len(Encode(systemPrompt)) < limit =>
        /\ truncations <= 1
        /\ (WalkDone /\ Len(Encode(systemPrompt)) + SumNoteTokens(WalkedNodes) > limit)
              => truncations = 1

\* C6: when a node was truncated, every message of a node closer to the leaf
\* carries that node's full trimmed text and no node farther from the leaf has
\* a message (stated for a resolved system prompt that is itself below the limit).
C6_WholeBeforeNothingAfter ==
    (pc \in {"visit", "done"} /\ Len(Encode(systemPrompt)) < limit) =>
        \A i, j \in 1..Len(origin) :
            (origin[i].truncated /\ j # i) =>
                /\ origin[j].depth <= origin[i].depth
                /\ origin[j].depth < origin[i].depth =>
                       messages[j] = WholeMessage(origin[j].node)

\* C7: a visited node whose trimmed content starts with the image sentinel is
\* emitted as a user image_url message whatever the budget, leaves the token
\* count unchanged, and the walk goes on to its parents; an emitted image
\* message stays in the list and is part of the returned result.
VisitingKind(k) ==
    /\ pc = "visit"
    /\ stack # <<>>
    /\ ~BeyondMaxDepth(Head(stack).depth)
    /\ NoteKind(Head(stack).node) = k

ParentVisits ==
    [i \in 1..Len(parents[Head(stack).node]) |->
        [node |-> parents[Head(stack).node][i], depth |-> Head(stack).depth + 1]]

C7_ImageAlwaysEmitted ==
    [][/\ VisitingKind("image") =>
              /\ messages' = <<WholeMessage(Head(stack).node)>> \o messages
              /\ Head(messages').role = "user"
              /\ Head(messages').type = "image_url"
              /\ tokenCount' = tokenCount
              /\ stack' = ParentVisits \o Tail(stack)
       /\ pc = "visit" =>
              \A i \in 1..Len(messages) :
                  messages[i].type = "image_url" => messages'[Len(messages') - Len(messages) + i] = messages[i]
       /\ pc' = "done" =>
              \A i \in 1..Len(messages) :
                  messages[i].type = "image_url" =>
                      \E j \in 1..Len(result'.messages) : result'.messages[j] = messages[i]]_vars

C7_Witness ==
    /\ pc = "visit"
    /\ IsChain
    /\ messages # <<>>
    /\ Head(messages).type = "image_url"
    /\ tokenCount >= limit
    /\ stack # <<>>

\* C8: a node whose trimmed content starts with SYSTEM PROMPT never yields a
\* message, leaves the token count unchanged in the main walk, and the walk
\* goes on to its parents.
C8_PromptNodeSkipped ==
    [][/\ \A i \in 1..Len(origin') : NoteKind(origin'[i].node) # "prompt"
       /\ \A i \in 1..Len(messages') :
              pc' = "visit" => ~StartsWith(Trim(messages'[i].content), SystemPromptMarker)
       /\ VisitingKind("prompt") =>
              /\ messages' = messages
              /\ tokenCount' = tokenCount
              /\ stack' = ParentVisits \o Tail(stack)]_vars

C8_Witness ==
    /\ pc = "done"
    /\ IsChain
    /\ Len(parents) = 3
    /\ NoteKind(2) = "prompt"
    /\ \E i \in 1..Len(origin) : origin[i].node = 3
    /\ \E i \in 1..Len(origin) : origin[i].node = 1

\* C9: getSystemPrompt returns the content of the first system-prompt node in
\* walk order, and the configured default exactly when the walk meets none.
C9_FirstPromptWins ==
    pc \in {"visit", "done"} =>
        systemPrompt = (IF MarkedInOrder # <<>> THEN nodes[Head(MarkedInOrder)].text
                        ELSE settings.systemPrompt)

\* C10: when the walk produced no message, buildMessages returns exactly
\* {messages: [], tokenCount: 0}, whatever the system prompt and action prompt.
C10_EmptyResult ==
    (pc = "done" /\ messages = <<>>) =>
        result = [messages |-> <<>>, tokenCount |-> 0]

C10_Witness ==
    /\ pc = "done"
    /\ messages = <<>>
    /\ systemPrompt # <<>>
    /\ actionPrompt # <<>>
    /\ tokenCount > 0

\* C11: in every non-empty result of buildMessages a message with role system
\* is present if and only if the resolved system prompt is non-empty; when
\* present it is the first element, its content is the resolved prompt, and
\* it is the only system message.
SystemIndexes(msgs) == { i \in 1..Len(msgs) : msgs[i].role = "system" }

C11_SystemMessageIffPrompt ==
    (pc = "done" /\ result.messages # <<>>) =>
        /\ (SystemIndexes(result.messages) # {}) <=> (systemPrompt # <<>>)
        /\ systemPrompt # <<>> =>
               /\ SystemIndexes(result.messages) = {1}
               /\ result.messages[1].content = systemPrompt
        /\ systemPrompt = ResolvedPrompt(foundPrompt, settings)

C11_Witness ==
    /\ pc = "done"
    /\ Len(result.messages) >= 3
    /\ systemPrompt # <<>>
    /\ foundPrompt # <<>>
    /\ result.messages[1].role = "system"

\* C12: when an action prompt is supplied and the walk produced at least one
\* message, the result is the result for the same graph without an action
\* prompt, followed by one final user message holding the action prompt, and
\* tokenCount is larger by exactly the action prompt's encoded length; the
\* ancestor-derived messages and the truncation decision do not depend on
\* the action prompt.
\* the walk of buildMessages recomputed from the graph and the settings
\* alone, starting from the system prompt's token count
RECURSIVE WalkAlone(_, _, _, _)
WalkAlone(stk, tc, msgs, cuts) ==
    IF stk = <<>>
    THEN [messages |-> msgs, tokenCount |-> tc, truncations |-> cuts]
    ELSE LET cur == Head(stk)
             v == visit(cur.node, cur.depth, tc)
             ps == parents[cur.node]
             rest == IF v.shouldContinue
                     THEN [i \in 1..Len(ps) |->
                              [node |-> ps[i], depth |-> cur.depth + 1]]
                          \o Tail(stk)
                     ELSE Tail(stk)
         IN  WalkAlone(rest, v.tokenCount, v.emit \o msgs,
                       cuts + (IF v.truncated THEN 1 ELSE 0))

WithoutActionPrompt ==
    LET w == WalkAlone(WalkStart(1),
                       IF systemPrompt # <<>> THEN Len(Encode(systemPrompt))
                       ELSE 0,
                       <<>>, 0)
    IN  [messages |-> IF w.messages = <<>> THEN <<>>
                      ELSE (IF systemPrompt # <<>>
                            THEN <<[role |-> "system", type |-> "text",
                                    content |-> systemPrompt]>>
                            ELSE <<>>) \o w.messages,
         tokenCount |-> IF w.messages = <<>> THEN 0 ELSE w.tokenCount,
         walked |-> w.messages,
         truncations |-> w.truncations]

C12_ActionPromptAppended ==
    (pc = "done" /\ actionPrompt # <<>> /\ messages # <<>>) =>
        /\ result.messages =
               Append(WithoutActionPrompt.messages,
                      [role |-> "user", type |-> "text",
                       content |-> actionPrompt])
        /\ result.tokenCount =
               WithoutActionPrompt.tokenCount + Len(Encode(actionPrompt))
        /\ messages = WithoutActionPrompt.walked
        /\ truncations = WithoutActionPrompt.truncations

C12_Witness ==
    /\ pc = "done"
    /\ actionPrompt # <<>>
    /\ Len(messages) >= 2
    /\ truncations >= 1
    /\ systemPrompt # <<>>
    /\ result.messages[Len(result.messages)].content = actionPrompt

\* C13: for a chain of three text nodes A, B, C of 5 tokens each with input
\* limit 12 and an empty system prompt, buildMessages keeps A and B whole, in
\* the order A then B, and C is either dropped or truncated to the tokens that
\* fit in the remaining 2 tokens minus the one-token margin; the result is
\* the same on every run.  The result is root-to-leaf, so B is the selected
\* node, A its parent and C, the oldest, the parent of A.
ChainOfThreeAtTwelve ==
    /\ parents = ChainParents(3)
    /\ \A n \in 1..3 : Len(Encode(Trim(nodes[n].text))) = 5
    /\ settings.maxInputTokens = 12
    /\ settings.systemPrompt = <<>>

Settled == gpc \in {"settled", "ended"} /\ completion.kind # "pending"
Parsed == Settled /\ response.ok /\ response.body.kind # "unparsable"
HasContent(b) == b.kind = "object" /\ b.content.present
HasOutputContent(b) ==
    /\ b.kind = "object"
    /\ b.output.present
    /\ b.output.items # <<>>
    /\ b.output.items[1].content.present
HasOutput(b) == b.kind = "object" /\ b.output.present
HasOutputText(b) == b.kind = "object" /\ b.output_text.defined
\* concatenation of the texts of the output_text items of a content array
RECURSIVE TextOf(_)
TextOf(items) ==
    IF items = <<>> THEN <<>>
    ELSE LET rest == TextOf(SubSeq(items, 1, Len(items) - 1))
             last == items[Len(items)]
         IN  IF last.type = "output_text" THEN rest \o last.text ELSE rest
LastNotice == notices[Len(notices)]

\* C14: getChatGPTCompletion returns the concatenation, in order, of the text
\* of the output_text items for a response {content: [...]}, of the first
\* output message's content for a response {output: [{content: [...]}]}, and
\* the output_text field for a response {output_text}; for a response
\* matching none of the three shapes it returns undefined.
C14_ReturnsShapeText ==
    Parsed =>
        LET b == response.body
        IN  /\ (HasContent(b) /\ ~HasOutput(b) /\ ~HasOutputText(b)) =>
                   completion = Returned(Defined(TextOf(b.content.items)))
            /\ (~HasContent(b) /\ HasOutputContent(b) /\ ~HasOutputText(b)) =>
                   completion =
                       Returned(Defined(TextOf(b.output.items[1].content.items)))
            /\ (~HasContent(b) /\ ~HasOutput(b) /\ HasOutputText(b)) =>
                   completion = Returned(b.output_text)
            /\ (~HasContent(b) /\ ~HasOutputContent(b) /\ ~HasOutputText(b)) =>
                   completion = Returned(Undefined)

\* C14, amended: a content array wins and gives its concatenation (the empty
\* string for an empty one); otherwise the first output message's content
\* gives its concatenation, or undefined when that is empty; otherwise the
\* output_text field is returned, undefined when it is absent.
C14_ReturnsShapeTextOrUndefined ==
    Parsed =>
        LET b == response.body
            first == TextOf(b.output.items[1].content.items)
        IN  /\ HasContent(b) =>
                   completion = Returned(Defined(TextOf(b.content.items)))
            /\ (~HasContent(b) /\ HasOutputContent(b)) =>
                   completion = Returned(IF first # <<>> THEN Defined(first)
                                         ELSE Undefined)
            /\ (~HasContent(b) /\ ~HasOutputContent(b) /\ HasOutputText(b)) =>
                   completion = Returned(b.output_text)
            /\ (~HasContent(b) /\ ~HasOutputContent(b) /\ ~HasOutputText(b)) =>
                   completion = Returned(Undefined)

C14_Witness ==
    /\ Parsed
    /\ ~HasContent(response.body)
    /\ HasOutputContent(response.body)
    /\ Len(response.body.output.items) = 2
    /\ completion = Returned(Defined(<<"H", "i">>))

\* C15: whenever the completion yields an empty or undefined reply
\* (undefined, null, or the empty string), generateNote removes the
\* placeholder node, shows a failure notice and creates no edge; the
\* placeholder is never kept with empty content.
C15_EmptyReplyDiscarded ==
    (/\ gpc = "ended"
     /\ completion.kind = "returned"
     /\ (~completion.value.defined \/ completion.value.text = <<>>)) =>
        /\ ~created.exists
        /\ edges = {}
        /\ LastNotice.kind \in {"empty", "error"}

\* C16: when the provider answers with success but a body that cannot be
\* parsed, getChatGPTCompletion does not throw and yields undefined;
\* generateNote then reports an empty or unreadable response and removes the
\* placeholder node.
C16_UnparsableBodyIsNoReply ==
    (Settled /\ response.ok /\ response.body.kind = "unparsable") =>
        /\ completion = Returned(Undefined)
        /\ gpc = "ended" => (LastNotice = EmptyNotice /\ ~created.exists)

\* C17: when the provider returns HTTP 429, the error generateNote reports to
\* the user is a rate-limit-specific message, different from the message
\* shown for any other transport failure, and the placeholder node is removed.
C17_RateLimitNoticeDistinct ==
    (gpc = "ended" /\ ~response.ok /\ response.error.code = 429) =>
        /\ ~created.exists
        /\ LastNotice.kind = "error"
        /\ \A e \in RequestErrors :
               e.code # 429 => ErrorNotice(e) # LastNotice

\* C18: whenever the completion call fails with a transport or API error, the
\* error propagates out of getChatGPTCompletion, and generateNote reports it
\* to the user, removes the placeholder node it created, creates no edge,
\* leaves the source node's content unchanged and ends the invocation.
C18_FailureReportedAndCleaned ==
    [][(gpc = "settled" /\ ~response.ok) =>
           /\ completion = Threw(response.error)
           /\ created.exists
           /\ notices' = Append(notices, ErrorNotice(response.error))
           /\ ~created'.exists
           /\ edges = {}
           /\ edges' = {}
           /\ nodes' = nodes
           /\ parents' = parents
           /\ gpc' = "ended"]_vars

C18_Witness ==
    /\ gpc = "ended"
    /\ completion.kind = "threw"
    /\ ~response.ok
    /\ response.error.code = 500
    /\ LastNotice = ErrorNotice(response.error)
    /\ ~created.exists
    /\ Len(requests) = 1

\* C19: when buildMessages returns no messages, generateNote is a silent
\* no-op: no placeholder node is created, no completion request is sent, no
\* edge is added, no node is removed and the selection is unchanged.
C19_NothingToSendIsNoOp ==
    [][(gpc = "building" /\ pc = "done" /\ result.messages = <<>>) =>
           /\ ~created.exists
           /\ created' = created
           /\ requests = <<>>
           /\ requests' = requests
           /\ edges' = edges
           /\ nodes' = nodes
           /\ selection' = selection
           /\ notices' = notices
           /\ gpc' = "ended"]_vars

C19_Witness ==
    /\ gpc = "ended"
    /\ pc = "done"
    /\ result = [messages |-> <<>>, tokenCount |-> 0]
    /\ ~created.exists
    /\ requests = <<>>
    /\ notices = <<>>
    /\ systemPrompt # <<>>

\* C20: after every generateNote invocation whose completion returned
\* non-empty text, the placeholder node still exists with its content equal to
\* the generated text, and exactly one new directed edge runs from the source
\* node to the reply node, labeled with the invoking action's name; for every
\* way the plugin triggers generation.
C20_ReplyIntegrated ==
    (/\ gpc = "ended"
     /\ completion.kind = "returned"
     /\ completion.value.defined
     /\ completion.value.text # <<>>) =>
        /\ created.exists
        /\ created.text = completion.value.text
        /\ edges = { [from |-> 1, to |-> CreatedId,
                      label |-> invokedAction.name] }

C22_AtMostOneRequest ==
    [][/\ Len(requests') <= 1
       /\ requests' # requests =>
              /\ requests = <<>>
              /\ gpc = "building"
              /\ pc = "done"
              /\ result.messages # <<>>
       /\ (/\ gpc = "settled"
           /\ (completion.kind = "threw" \/ ~completion.value.defined)) =>
              /\ gpc' = "ended"
              /\ requests' = requests
       /\ gpc = "ended" => vars' = vars]_vars

C22_Witness ==
    /\ gpc = "ended"
    /\ completion = Returned(Undefined)
    /\ Len(requests) = 1
    /\ ~created.exists

\* C23: the settings used by one buildMessages invocation are immutable for
\* its duration: the input-token limit and the maximum depth applied to every
\* node of one walk are the same values, also when a settings-tab change
\* handler runs at an await point in the middle of the walk.
C23_OneLimitPerWalk ==
    \A i, j \in 1..Len(origin) :
        /\ origin[i].inputLimit = origin[j].inputLimit
        /\ origin[i].maxDepth = origin[j].maxDepth

\* C24: when a node is truncated, the tokens added to the running count are
\* the token count of the truncated text the message carries
C24_ContributionIsEncodedLength ==
    [][ truncations' = truncations + 1
        => tokenCount' - tokenCount = Len(Encode(Head(messages').content)) ]_vars

\* C25: with a maximum depth d > 0 no message originates from a depth beyond
\* d, and a visit beyond d adds no message and no tokens and pushes no
\* parent; with maximum depth 0 a text node within the limit is emitted and
\* its parents are pushed at any depth; the prompt walk runs first, emits
\* nothing, and the main walk no longer changes the resolved prompt
EmitsText(node) ==
    LET nodeText == Trim(readNodeContent(node))
    IN  /\ nodeText # <<>>
        /\ ~StartsWith(nodeText, ImageSentinel)
        /\ ~isSystemPromptNode(nodeText)
        /\ ~ExceedsLimit(tokenCount, Encode(nodeText), getTokenLimit(settings))

C26_ModelNameMapping ==
    /\ Len(requests) <= 1
    /\ \A i \in 1..Len(requests) :
           LET sent == requests[i].model
               name == config.apiModel
           IN  /\ name = O3Mini => sent = Gpt4oMini
               /\ name # O3Mini /\ StartsWith(name, O3) => sent = Gpt4o
               /\ ~StartsWith(name, O3) => sent = name

C26_Witness ==
    /\ Len(requests) = 1
    /\ config.apiModel = O3Mini
    /\ requests[1].model = Gpt4oMini

PlaceholderIntegrated ==
    /\ created.exists
    /\ completion.kind = "returned"
    /\ completion.value.defined
    /\ created.text = completion.value.text
    /\ created.text # CallingAI
    /\ \E e \in edges : e.from = 1 /\ e.to = CreatedId

C28_PlaceholderSettledAtEnd ==
    /\ [](gpc = "ended" /\ requests # <<>>
            => (~created.exists) # PlaceholderIntegrated)
    /\ (created.exists /\ gpc = "requesting") ~> (gpc = "ended")

\* the reply arrived, the label could not be read, and the invocation ended
\* with the placeholder removed
C28_Witness ==
    /\ gpc = "ended"
    /\ completion.kind = "returned"
    /\ completion.value.defined
    /\ ~invokedAction.defined
    /\ LastNotice = ErrorNotice(TypeError)
    /\ ~created.exists

\* C29: with two invocations pending together, a step that settles or
\* integrates one of them leaves the other's placeholder as it was, on the
\* canvas or off it, and no step changes the content of a source node or
\* takes a source node off the canvas
Started == { i \in Invocations : overlap.inv[i].pc # "idle" }

C29_OwnPlaceholderOnly ==
    [][ /\ \A i, j \in Started :
              (i # j /\ overlap'.inv[i] # overlap.inv[i]
                    /\ overlap.inv[j].created # 0
                    /\ overlap.inv[j].created # overlap.inv[i].created)
              => /\ nodes'[overlap.inv[j].created] = nodes[overlap.inv[j].created]
                 /\ (overlap.inv[j].created \in overlap'.removed)
                        = (overlap.inv[j].created \in overlap.removed)
        /\ \A j \in Started :
              /\ nodes'[overlap.inv[j].source] = nodes[overlap.inv[j].source]
              /\ overlap.inv[j].source \notin overlap'.removed ]_vars

====
